---- MODULE Spec2Model ----
(***************************************************************************)
(* A model of app.py: the synthetic storage-cluster event generator.       *)
(*                                                                         *)
(*   - weighted_choice / generate_event are operators computed as the      *)
(*     code computes them; every random draw of a call is an explicit      *)
(*     input (the record d), so that the actions choose the draws.         *)
(*   - main is the event-generation loop; k8s_metrics_updater and          *)
(*     system_metrics_updater are the two daemon polling threads.          *)
(*                                                                         *)
(* Weights are the source's floats in units of 0.005 (0.05 is 10), which   *)
(* keeps every cumulative sum exact; a draw r stands for the half-open     *)
(* cell [r, r+1) of random.random() * total_weight in these units.         *)
(* Severities are the names of the logging levels.                         *)
(***************************************************************************)
EXTENDS Integers, Sequences, FiniteSets, TLC

VARIABLES
    events,      \* the catalog handed to weighted_choice (EVENTS in the program)
    nodes,       \* the global list nodes
    volumes,     \* the global list volumes (capacity_gb is mutated in place)
    pcMain,      \* position of main: "loop" or "stopped" (an exception left it)
    counter,     \* EVENT_COUNTER: label value -> count
    sink,        \* the logger: how many records it got, and the last one it got
    generated,   \* history: event name -> number of generate_event calls that chose it
    failures,    \* history: number of external calls of main that raised
    pcK8s,       \* position of the k8s_metrics_updater thread: "alive" or "dead"
    k8sGauges,   \* POD_COUNT_GAUGE and NODE_COUNT_GAUGE
    pcSys,       \* position of the system_metrics_updater thread
    sysGauges,   \* the node_* gauges
    selRet,      \* result of the last direct call of weighted_choice
    seed,        \* the seed given to the random module before a seeded run
    runA,        \* output of the first seeded run
    runB         \* output of the second seeded run

vars == <<events, nodes, volumes, pcMain, counter, sink, generated, failures,
          pcK8s, k8sGauges, pcSys, sysGauges, selRet, seed, runA, runB>>

(***************************************************************************)
(* Bounds of the model.                                                    *)
(***************************************************************************)
\* iterations of main's loop that a behaviour of the program may run
MaxEvents == 2
\* iterations of main's loop under the generator specification
MaxCalls == 1
\* a bounded draw is one of the quantiles 0..QSteps of its range
QSteps == 1
\* longest catalog handed to weighted_choice directly
MaxCatalogLen == 3
\* largest weight of such a catalog (0 is allowed: a non-positive weight)
MaxWeight == 2
\* seeds of the seeded runs are 0..MaxSeed
MaxSeed == 5

(***************************************************************************)
(* The static data of section 5 of app.py.                                 *)
(***************************************************************************)
InitNodes ==
    << [id |-> "node1", cluster |-> "clusterA", ip |-> "10.0.0.1", region |-> "us-east-1"],
       [id |-> "node2", cluster |-> "clusterA", ip |-> "10.0.0.2", region |-> "us-east-1"],
       [id |-> "node3", cluster |-> "clusterB", ip |-> "10.1.0.1", region |-> "us-west-2"],
       [id |-> "node4", cluster |-> "clusterB", ip |-> "10.1.0.2", region |-> "us-west-2"],
       [id |-> "node5", cluster |-> "clusterC", ip |-> "10.2.0.1", region |-> "eu-central-1"] >>

InitVolumes ==
    << [id |-> "vol-100", cluster |-> "clusterA", capacity_gb |-> 500],
       [id |-> "vol-101", cluster |-> "clusterA", capacity_gb |-> 1000],
       [id |-> "vol-200", cluster |-> "clusterB", capacity_gb |-> 250],
       [id |-> "vol-201", cluster |-> "clusterB", capacity_gb |-> 750],
       [id |-> "vol-300", cluster |-> "clusterC", capacity_gb |-> 2000] >>

\* (name, level, weight): the weight is the source's weight / 0.005
EVENTS ==
    << <<"NODE_JOINED", "INFO", 10>>,
       <<"NODE_LEFT", "WARNING", 4>>,
       <<"NODE_OFFLINE", "ERROR", 6>>,
       <<"NODE_REBOOT", "WARNING", 2>>,
       <<"VOLUME_CREATED", "INFO", 14>>,
       <<"VOLUME_EXPANDED", "INFO", 10>>,
       <<"VOLUME_DELETED", "WARNING", 6>>,
       <<"SNAPSHOT_CREATED", "INFO", 16>>,
       <<"SNAPSHOT_RESTORED", "INFO", 12>>,
       <<"BACKUP_COMPLETED", "INFO", 16>>,
       <<"BACKUP_FAILED", "ERROR", 6>>,
       <<"DATA_READ", "INFO", 30>>,
       <<"DATA_WRITE", "INFO", 36>>,
       <<"DATA_REPLICATION", "INFO", 10>>,
       <<"DATA_REPLICATION_FAILED", "ERROR", 4>>,
       <<"ALERT_CAPACITY", "ERROR", 4>>,
       <<"ALERT_PERFORMANCE", "WARNING", 4>>,
       <<"IO_TIMEOUT", "ERROR", 2>>,
       <<"CACHE_MISS", "INFO", 10>>,
       <<"DISK_FAILURE", "CRITICAL", 1>>,
       <<"FILE_CORRUPTION", "CRITICAL", 1>>,
       <<"MAINTENANCE_MODE_ENABLED", "WARNING", 2>>,
       <<"MAINTENANCE_MODE_DISABLED", "INFO", 2>> >>

DEVICE_TYPES == <<"desktop", "mobile", "tablet", "server">>

OPERATING_SYSTEMS ==
    << "Windows 10", "Windows Server 2022", "macOS 13.0", "Ubuntu 22.04",
       "CentOS 7", "Android 13", "iOS 16", "Red Hat Enterprise Linux 8" >>

BOT_USER_AGENTS ==
    << "Mozilla/5.0 (compatible; Googlebot/2.1; +http://www.google.com/bot.html)",
       "Mozilla/5.0 (compatible; Bingbot/2.0; +http://www.bing.com/bingbot.htm)",
       "Mozilla/5.0 (compatible; YandexBot/3.0; +http://yandex.com/bots)" >>

REAL_USER_AGENTS ==
    << "Mozilla/5.0 (Windows NT 10.0; Win64; x64) AppleWebKit/537.36 (KHTML, like Gecko) Chrome/112.0.5615.137 Safari/537.36",
       "Mozilla/5.0 (Macintosh; Intel Mac OS X 13_3) AppleWebKit/605.1.15 (KHTML, like Gecko) Version/16.0 Safari/605.1.15",
       "Mozilla/5.0 (Linux; Android 13; Pixel 7) AppleWebKit/537.36 (KHTML, like Gecko) Chrome/110.0 Mobile Safari/537.36",
       "Mozilla/5.0 (iPhone; CPU iPhone OS 16_4 like Mac OS X) AppleWebKit/604.1.34 (KHTML, like Gecko) Version/16.0 Mobile/15E148 Safari/604.1",
       "Mozilla/5.0 (X11; Linux x86_64) AppleWebKit/537.36 (KHTML, like Gecko) Chrome/110.0.5481.153 Safari/537.36",
       "Mozilla/5.0 (iPad; CPU OS 16_4 like Mac OS X) AppleWebKit/605.1.15 (KHTML, like Gecko) Version/16.0 Mobile/15E148 Safari/604.1",
       "Mozilla/5.0 (Windows NT 10.0; rv:112.0) Gecko/20100101 Firefox/112.0",
       "Mozilla/5.0 (Windows NT 10.0; WOW64; rv:55.0) Gecko/20100101 Firefox/55.0" >>

\* BOT_CHANCE = 0.03, in hundredths
BOT_CHANCE == 3

PRIORITIES == <<"P0", "P1", "P2", "P3">>

ALL_TAGS == <<"production", "infra", "beta", "urgent", "devops", "high-traffic", "critical">>

PHASES == <<"init", "processing", "finalizing", "cleanup", "verifying">>

DEPARTMENTS == <<"sales", "engineering", "it", "devops", "finance">>

REBOOT_REASONS == <<"hardware upgrade", "software update", "unexpected error">>

ERROR_CODES == <<"E101", "E202", "E303">>

CORRUPTION_LEVELS == <<"minor", "severe">>

(***************************************************************************)
(* The random sources.  A call of generate_event reads its draws from a    *)
(* record d: d.r is the cell of random.random() * total_weight, d.node     *)
(* and d.volume are the indexes random.choice picks, d.q gives each other  *)
(* call site of the random module a quantile 0..QSteps of its range, and   *)
(* d.user, d.ip (Faker) and d.uuid (uuid.uuid4) are the draws of the       *)
(* sources that are not the random module.                                 *)
(***************************************************************************)
Sites ==
    << "process_id", "device_type", "os_version", "ua_bot", "ua_choice", "cpu_usage",
       "memory_free_mb", "priority", "num_tags", "tags", "phase", "org_id", "dept",
       "disk_temperature_c", "io_queue_length", "magnitude", "magnitude2" >>

SiteSet == {Sites[i] : i \in 1..Len(Sites)}

\* random.randint(a, b)
RandInt(a, b, q) == a + ((b - a) * q) \div QSteps

\* random.choice(seq)
Choice(seq, q) == seq[1 + ((Len(seq) - 1) * q) \div QSteps]

\* random.random(), in hundredths: a value of [0, 1)
RandomUnit(q) == (100 * q) \div (QSteps + 1)

\* random.sample(seq, k): k distinct elements of seq
Sample(seq, k, q) ==
    LET o == ((Len(seq) - 1) * q) \div QSteps
    IN  [i \in 1..k |-> seq[1 + ((o + i - 1) % Len(seq))]]

HexDigits == <<"0", "1", "2", "3", "4", "5", "6", "7", "8", "9", "a", "b", "c", "d", "e", "f">>

\* hex(n)[2:]
RECURSIVE Hex(_)
Hex(n) == IF n < 16 THEN <<HexDigits[n + 1]>>
          ELSE Hex(n \div 16) \o <<HexDigits[(n % 16) + 1]>>

pick_user_agent(qBot, qChoice) ==
    IF RandomUnit(qBot) < BOT_CHANCE THEN Choice(BOT_USER_AGENTS, qChoice)
    ELSE Choice(REAL_USER_AGENTS, qChoice)

pick_device_type(q) == Choice(DEVICE_TYPES, q)

pick_os_version(q) == Choice(OPERATING_SYSTEMS, q)

(***************************************************************************)
(* weighted_choice                                                         *)
(***************************************************************************)
RECURSIVE SumWeights(_, _)
\* sum(e[2] for e in events[:n])
SumWeights(evs, n) == IF n = 0 THEN 0 ELSE SumWeights(evs, n - 1) + evs[n][3]

total_weight(evs) == SumWeights(evs, Len(evs))

\* the values r = random.random() * total_weight can take
RandomR(evs) == IF total_weight(evs) = 0 THEN {0} ELSE 0..(total_weight(evs) - 1)

\* the faulty variant of Scan that compares with <= in place of <
RECURSIVE ScanLe(_, _, _, _)
ScanLe(evs, i, cumulative, r) ==
    IF i > Len(evs) THEN [name |-> "DATA_WRITE", lvl |-> "INFO", via |-> "fallback"]
    ELSE IF r <= cumulative + evs[i][3]
         THEN [name |-> evs[i][1], lvl |-> evs[i][2], via |-> "loop"]
         ELSE ScanLe(evs, i + 1, cumulative + evs[i][3], r)

RECURSIVE ScanFrom(_, _, _, _)
\* the for loop of weighted_choice from index i on, and the return after it;
\* via records which return statement was taken
ScanFrom(evs, i, cumulative, r) ==
    IF i > Len(evs) THEN [name |-> "DATA_WRITE", lvl |-> "INFO", via |-> "fallback"]
    ELSE IF r < cumulative + evs[i][3]
         THEN [name |-> evs[i][1], lvl |-> evs[i][2], via |-> "loop"]
         ELSE ScanFrom(evs, i + 1, cumulative + evs[i][3], r)

weighted_choice_le(evs, r) == ScanLe(evs, 1, 0, r)

weighted_choice(evs, r) == ScanFrom(evs, 1, 0, r)

(***************************************************************************)
(* generate_event                                                          *)
(***************************************************************************)
\* lines 299-328: the fields every event carries
CommonFields(event_name, node, volume, d) ==
    LET num_tags == RandInt(0, 2, d.q["num_tags"])
        base ==
          [ event |-> event_name,
            cluster |-> node.cluster,
            node_id |-> node.id,
            node_ip |-> node.ip,
            node_region |-> node.region,
            volume_id |-> volume.id,
            volume_cluster |-> volume.cluster,
            volume_capacity_gb |-> volume.capacity_gb,
            process_id |-> RandInt(100, 9999, d.q["process_id"]),
            device_type |-> pick_device_type(d.q["device_type"]),
            os_version |-> pick_os_version(d.q["os_version"]),
            user_agent |-> pick_user_agent(d.q["ua_bot"], d.q["ua_choice"]),
            caller_ip |-> d.ip,
            correlation_id |-> d.uuid,
            cpu_usage_percent |-> RandInt(1, 99, d.q["cpu_usage"]),
            memory_free_mb |-> RandInt(100, 32000, d.q["memory_free_mb"]),
            priority |-> Choice(PRIORITIES, d.q["priority"]),
            tags |-> Sample(ALL_TAGS, num_tags, d.q["tags"]),
            phase |-> Choice(PHASES, d.q["phase"]),
            org_id |-> RandInt(1, 20, d.q["org_id"]),
            department |-> Choice(DEPARTMENTS, d.q["dept"]) ]
    IN  IF event_name \in {"DISK_FAILURE", "FILE_CORRUPTION"}
        THEN base @@ [ disk_temperature_c |-> RandInt(30, 90, d.q["disk_temperature_c"]),
                       io_queue_length |-> RandInt(0, 100, d.q["io_queue_length"]) ]
        ELSE base

\* a faulty variant of VolumeExpanded that stores the increment, not the sum
VolumeExpandedDelta(volume, user, q) ==
    LET old_size == volume.capacity_gb
        add_size == RandInt(100, 500, q)
        new_size == old_size + add_size
    IN  [ message |-> <<"Volume ", volume.id, " expanded from ", old_size, "GB to ", new_size, "GB">>,
          fields |-> [old_size_gb |-> old_size, new_size_gb |-> new_size, expanded_by |-> user],
          capacity_gb |-> add_size,
          raised |-> FALSE ]

\* lines 345-353: the VOLUME_EXPANDED branch; capacity_gb is what the branch
\* leaves in volume["capacity_gb"]
VolumeExpanded(volume, user, q) ==
    LET old_size == volume.capacity_gb
        add_size == RandInt(100, 500, q)
        new_size == old_size + add_size
    IN  [ message |-> <<"Volume ", volume.id, " expanded from ", old_size, "GB to ", new_size, "GB">>,
          fields |-> [old_size_gb |-> old_size, new_size_gb |-> new_size, expanded_by |-> user],
          capacity_gb |-> new_size,
          raised |-> FALSE ]

\* a faulty variant of UnknownEvent: the dispatch has no else branch, and the return
\* reads message before it was assigned (UnboundLocalError)
UnknownEventUnbound(event_name, volume) ==
    [ message |-> <<>>, fields |-> <<>>, capacity_gb |-> volume.capacity_gb, raised |-> TRUE ]

\* lines 424-426: the else branch
UnknownEvent(event_name, volume) ==
    [ message |-> <<"UNKNOWN EVENT ", event_name>>,
      fields |-> [unknown_event |-> TRUE],
      capacity_gb |-> volume.capacity_gb,
      raised |-> FALSE ]

\* a faulty variant of Plain: a branch that reports a new size also stores it in the
\* volume record
PlainResize(msg, flds, volume) ==
    [ message |-> msg, fields |-> flds,
      capacity_gb |-> IF "new_size_gb" \in DOMAIN flds THEN flds.new_size_gb ELSE volume.capacity_gb,
      raised |-> FALSE ]

\* a branch that only formats a message and adds fields
Plain(msg, flds, volume) ==
    [ message |-> msg, fields |-> flds, capacity_gb |-> volume.capacity_gb, raised |-> FALSE ]

\* lines 330-426: the dispatch on event_name
Branch(event_name, node, volume, d) ==
    LET user == d.user
        m1 == d.q["magnitude"]
        m2 == d.q["magnitude2"]
    IN
    CASE event_name = "NODE_JOINED" ->
           Plain(<<"Node ", node.id, " joined cluster ", node.cluster, " in region ", node.region>>,
                 <<>>, volume)
      [] event_name = "NODE_LEFT" ->
           Plain(<<"Node ", node.id, " LEFT cluster ", node.cluster, " (possible maintenance)">>,
                 <<>>, volume)
      [] event_name = "NODE_OFFLINE" ->
           Plain(<<"Node ", node.id, " is OFFLINE, IP=", node.ip, ", cluster=", node.cluster, "!">>,
                 [reason |-> "Connectivity Lost"], volume)
      [] event_name = "NODE_REBOOT" ->
           Plain(<<"Node ", node.id, " is rebooting for scheduled maintenance">>,
                 [reboot_reason |-> Choice(REBOOT_REASONS, m1)], volume)
      [] event_name = "VOLUME_CREATED" ->
           LET new_size == RandInt(100, 3000, m1)
           IN  Plain(<<"Volume ", volume.id, " CREATED with ", new_size, "GB">>,
                     [new_size_gb |-> new_size, created_by |-> user], volume)
      [] event_name = "VOLUME_EXPANDED" -> VolumeExpanded(volume, user, m1)
      [] event_name = "VOLUME_DELETED" ->
           Plain(<<"Volume ", volume.id, " was DELETED from cluster ", node.cluster>>,
                 [deleted_by |-> user], volume)
      [] event_name = "SNAPSHOT_CREATED" ->
           LET snap_id == <<"snap-", RandInt(1000, 9999, m1)>>
           IN  Plain(<<"Snapshot ", snap_id, " created for volume ", volume.id>>,
                     [snapshot_id |-> snap_id, created_by |-> user], volume)
      [] event_name = "SNAPSHOT_RESTORED" ->
           LET snap_id == <<"snap-", RandInt(1000, 9999, m1)>>
           IN  Plain(<<"Snapshot ", snap_id, " restored onto volume ", volume.id>>,
                     [snapshot_id |-> snap_id, restored_by |-> user], volume)
      [] event_name = "BACKUP_COMPLETED" ->
           Plain(<<"Backup completed for volume ", volume.id>>, [backup_by |-> user], volume)
      [] event_name = "BACKUP_FAILED" ->
           Plain(<<"Backup FAILED for volume ", volume.id>>,
                 [error |-> "Simulated backup error", backup_user |-> user], volume)
      [] event_name = "DATA_READ" ->
           LET size_mb == RandInt(1, 500, m1)
               read_latency == RandInt(1, 400, m2)
           IN  Plain(<<"Data read ", size_mb, "MB from volume ", volume.id, " by user ", user>>,
                     [read_mb |-> size_mb, latency_ms |-> read_latency], volume)
      [] event_name = "DATA_WRITE" ->
           LET size_mb == RandInt(1, 2000, m1)
               write_latency == RandInt(10, 2000, m2)
           IN  Plain(<<"Data write ", size_mb, "MB to volume ", volume.id, " by user ", user>>,
                     [written_mb |-> size_mb, latency_ms |-> write_latency], volume)
      [] event_name = "DATA_REPLICATION" ->
           \* round(random.uniform(0.1, 10.0), 2), in hundredths
           Plain(<<"Data replication started on node ", node.id, " for volume ", volume.id>>,
                 [replication_initiator |-> user, throughput_mb_s |-> RandInt(10, 1000, m1)], volume)
      [] event_name = "DATA_REPLICATION_FAILED" ->
           Plain(<<"Data replication FAILED on node ", node.id, " for volume ", volume.id>>,
                 [error |-> "Simulated replication failure"], volume)
      [] event_name = "ALERT_CAPACITY" ->
           LET usage_gb == volume.capacity_gb + RandInt(100, 300, m1)
           IN  Plain(<<"Capacity ALERT: volume ", volume.id, " usage=", usage_gb,
                       "GB / capacity=", volume.capacity_gb, "GB!">>,
                     [usage_gb |-> usage_gb], volume)
      [] event_name = "ALERT_PERFORMANCE" ->
           LET iops == RandInt(10000, 50000, m1)
           IN  Plain(<<"Performance ALERT: node ", node.id, " iops=", iops, "!">>,
                     [iops |-> iops], volume)
      [] event_name = "IO_TIMEOUT" ->
           LET timeout_duration == RandInt(100, 2000, m1)
           IN  Plain(<<"I/O timeout on node ", node.id, " for volume ", volume.id,
                       " (timeout: ", timeout_duration, "ms)">>,
                     [timeout_duration_ms |-> timeout_duration], volume)
      [] event_name = "CACHE_MISS" ->
           \* round(random.uniform(0.7, 0.99), 2), in hundredths
           Plain(<<"Cache miss for volume ", volume.id, ", falling back to disk read">>,
                 [cache_hit_ratio |-> RandInt(70, 99, m1)], volume)
      [] event_name = "DISK_FAILURE" ->
           LET disk_id == <<"disk-", RandInt(1, 8, m1)>>
           IN  Plain(<<"Critical: Disk failure detected on node ", node.id, " (disk ", disk_id, ")">>,
                     [disk_id |-> disk_id, error_code |-> Choice(ERROR_CODES, m2)], volume)
      [] event_name = "FILE_CORRUPTION" ->
           Plain(<<"Critical: File corruption detected in volume ", volume.id, " on node ", node.id>>,
                 [corruption_level |-> Choice(CORRUPTION_LEVELS, m1),
                  error_checksum |-> Hex(RandInt(0, 16777215, m2))], volume)
      [] event_name = "MAINTENANCE_MODE_ENABLED" ->
           Plain(<<"MAINTENANCE MODE ENABLED on cluster ", node.cluster>>, [enabled_by |-> user], volume)
      [] event_name = "MAINTENANCE_MODE_DISABLED" ->
           Plain(<<"MAINTENANCE MODE DISABLED on cluster ", node.cluster>>, [disabled_by |-> user], volume)
      [] OTHER -> UnknownEvent(event_name, volume)

\* a faulty variant of generate_event: every event is returned at level INFO
generate_event_info(evs, nds, vols, d) ==
    LET wc == weighted_choice(evs, d.r)
        node == nds[d.node]
        volume == vols[d.volume]
        b == Branch(wc.name, node, volume, d)
    IN  [ level |-> "INFO",
          message |-> b.message,
          extra |-> b.fields @@ CommonFields(wc.name, node, volume, d),
          raised |-> b.raised,
          volumes |-> [vols EXCEPT ![d.volume].capacity_gb = b.capacity_gb] ]

\* a faulty variant of generate_event: the common fields are read after the
\* dispatch, so volume_capacity_gb is the capacity the branch left behind
generate_event_late(evs, nds, vols, d) ==
    LET wc == weighted_choice(evs, d.r)
        node == nds[d.node]
        volume == vols[d.volume]
        b == Branch(wc.name, node, volume, d)
        after == [volume EXCEPT !.capacity_gb = b.capacity_gb]
    IN  [ level |-> wc.lvl,
          message |-> b.message,
          extra |-> b.fields @@ CommonFields(wc.name, node, after, d),
          raised |-> b.raised,
          volumes |-> [vols EXCEPT ![d.volume].capacity_gb = b.capacity_gb] ]

\* lines 281-428.  The result is what the call returns (level, message, extra),
\* whether it raised instead, and the volumes list as the call leaves it.
generate_event(evs, nds, vols, d) ==
    LET wc == weighted_choice(evs, d.r)
        node == nds[d.node]
        volume == vols[d.volume]
        b == Branch(wc.name, node, volume, d)
    IN  [ level |-> wc.lvl,
          message |-> b.message,
          extra |-> b.fields @@ CommonFields(wc.name, node, volume, d),
          raised |-> b.raised,
          volumes |-> [vols EXCEPT ![d.volume].capacity_gb = b.capacity_gb] ]

(***************************************************************************)
(* The draws the actions choose from.                                      *)
(***************************************************************************)
\* fake.user_name()
Users == <<"jsmith", "mbrown">>

\* fake.ipv4_private()
Ips == <<"10.44.3.9", "192.168.17.5">>

\* str(uuid.uuid4())
Uuids == <<"3f2b8c1e-uuid-a", "9d41e07a-uuid-b">>

\* every call site of the random module at quantile p
Profile(p) == [s \in SiteSet |-> p]

\* the draw records over the cells R, the node indexes N and the volume
\* indexes V: one record per quantile p, with the p-th user, ip and uuid
Draws(R, N, V) ==
    { [ r |-> r, node |-> n, volume |-> v, q |-> Profile(p),
        user |-> Users[1 + (p % Len(Users))],
        ip |-> Ips[1 + (p % Len(Ips))],
        uuid |-> Uuids[1 + (p % Len(Uuids))] ] :
      r \in R, n \in N, v \in V, p \in 0..QSteps }

\* the first cell of every definition of positive weight
CellStarts(evs) ==
    IF total_weight(evs) = 0 THEN {0}
    ELSE { SumWeights(evs, i - 1) : i \in {j \in 1..Len(evs) : evs[j][3] > 0} }

\* draws of the whole-program specification: the cells of NODE_JOINED,
\* VOLUME_EXPANDED (both edges), DATA_WRITE, ALERT_CAPACITY and
\* MAINTENANCE_MODE_DISABLED, the last node, the first and third volume
FocusDraws == Draws({0, 36, 45, 132, 182, 207} \cap RandomR(events), {Len(nodes)}, {1, 3})

\* draws of the generator specification: every definition of the catalog
\* with every node (and the first volume) and with every volume (and the
\* first node)
WideDraws ==
    Draws(CellStarts(events), 1..Len(nodes), {1}) \cup Draws(CellStarts(events), {1}, 1..Len(volumes))

(***************************************************************************)
(* main                                                                    *)
(***************************************************************************)
NoEvent == [level |-> "NONE", message |-> <<>>, extra |-> <<>>]

\* Counter.labels(event_name=n).inc(): the child of a label is made on first use
Inc(c, n) == IF n \in DOMAIN c THEN [c EXCEPT ![n] = @ + 1] ELSE c @@ (n :> 1)

Count(c, n) == IF n \in DOMAIN c THEN c[n] ELSE 0

RECURSIVE SumOver(_, _)
SumOver(c, S) ==
    IF S = {} THEN 0
    ELSE LET n == CHOOSE x \in S : TRUE IN c[n] + SumOver(c, S \ {n})

Total(c) == SumOver(c, DOMAIN c)

\* a faulty variant of CountEvent: the counter is labelled with the fallback of extra.get
CountEventUnknown(c, extra) == Inc(c, "unknown")

\* line 435
CountEvent(c, extra) ==
    Inc(c, IF "event" \in DOMAIN extra THEN extra.event ELSE "unknown")

\* line 436: the record the logger gets
LogEvent(s, level, message, extra) ==
    [n |-> s.n + 1, last |-> [level |-> level, message |-> message, extra |-> extra]]

\* One iteration of the while loop of main (lines 433-438).
\* outcome says how the two external calls end: both return ("ok"), the
\* counter call raises, or the logger call raises; main has no handler, so an
\* exception leaves the loop and ends main.
MainStep(g, chosen, outcome) ==
    /\ volumes' = g.volumes
    /\ generated' = Inc(generated, chosen)
    /\ IF g.raised
       THEN /\ pcMain' = "stopped"
            /\ UNCHANGED <<counter, sink, failures>>
       ELSE /\ counter' = IF outcome = "counter_raises" THEN counter
                          ELSE CountEvent(counter, g.extra)
            /\ sink' = IF outcome = "ok" THEN LogEvent(sink, g.level, g.message, g.extra)
                       ELSE sink
            /\ pcMain' = IF outcome = "ok" THEN "loop" ELSE "stopped"
            /\ failures' = IF outcome = "ok" THEN failures ELSE failures + 1
    /\ UNCHANGED <<events, nodes, pcK8s, k8sGauges, pcSys, sysGauges, selRet, seed, runA, runB>>

\* the loop of main, bounded to limit iterations; g is what generate_event
\* returns and chosen the name its call of weighted_choice chose
MainIteration(D, limit) ==
    /\ pcMain = "loop"
    /\ Total(generated) < limit
    /\ \E d \in D :
         \E g \in {generate_event(events, nodes, volumes, d)} :
           \E chosen \in {weighted_choice(events, d.r).name} :
             \E outcome \in {"ok", "counter_raises", "logger_raises"} :
               MainStep(g, chosen, outcome)

(***************************************************************************)
(* The polling threads                                                     *)
(***************************************************************************)
NoGauges == <<>>

\* what the cluster answers: the length of pods.items and the listed nodes
K8sSamples == { [pods |-> 3, nodes |-> <<"k8s-node-a", "k8s-node-b">>] }

\* what psutil answers
SysSamples == { [cpus |-> 2, mem_total |-> 8192, mem_free |-> 1024, pids |-> 40, boot_time |-> 1700000000] }

\* a faulty variant of update_k8s_metrics: nodes is declared global, so the listing
\* of the cluster's nodes replaces the node catalog
update_k8s_metrics_global(nds, sample) ==
    [ gauges |-> [k8s_pod_count |-> sample.pods, k8s_node_count |-> Len(sample.nodes)],
      nodes |-> sample.nodes ]

\* lines 85-95: pods and nodes are locals; the result is the two gauges and
\* the global nodes as the call leaves it
update_k8s_metrics(nds, sample) ==
    [ gauges |-> [k8s_pod_count |-> sample.pods, k8s_node_count |-> Len(sample.nodes)],
      nodes |-> nds ]

\* lines 97-100: one round of k8s_metrics_updater that returns
K8sUpdate ==
    /\ pcK8s = "alive"
    /\ \E sample \in K8sSamples :
         LET u == update_k8s_metrics(nodes, sample)
         IN  /\ k8sGauges' = u.gauges
             /\ nodes' = u.nodes
    /\ UNCHANGED <<events, volumes, pcMain, counter, sink, generated, failures,
                   pcK8s, pcSys, sysGauges, selRet, seed, runA, runB>>

\* update_k8s_metrics raises (no cluster configuration, an API error): the
\* exception ends the thread
K8sFail ==
    /\ pcK8s = "alive"
    /\ pcK8s' = "dead"
    /\ UNCHANGED <<events, nodes, volumes, pcMain, counter, sink, generated, failures,
                   k8sGauges, pcSys, sysGauges, selRet, seed, runA, runB>>

\* lines 107-179: the gauges update_system_metrics sets
update_system_metrics(sample) ==
    [ node_memory_MemTotal_bytes |-> sample.mem_total,
      node_memory_MemFree_bytes |-> sample.mem_free,
      node_processes_pids |-> sample.pids,
      node_procs_blocked |-> 0,
      node_boot_time_seconds |-> sample.boot_time,
      node_cpu_count |-> sample.cpus ]

\* lines 181-184: one round of system_metrics_updater that returns
SysUpdate ==
    /\ pcSys = "alive"
    /\ \E sample \in SysSamples : sysGauges' = update_system_metrics(sample)
    /\ UNCHANGED <<events, nodes, volumes, pcMain, counter, sink, generated, failures,
                   pcK8s, k8sGauges, pcSys, selRet, seed, runA, runB>>

\* update_system_metrics raises: the exception ends the thread
SysFail ==
    /\ pcSys = "alive"
    /\ pcSys' = "dead"
    /\ UNCHANGED <<events, nodes, volumes, pcMain, counter, sink, generated, failures,
                   pcK8s, k8sGauges, sysGauges, selRet, seed, runA, runB>>

(***************************************************************************)
(* The program                                                             *)
(***************************************************************************)
NoCall == [called |-> FALSE]

NoRun == [done |-> FALSE]

\* the state after the module is loaded, but for the catalog and the seed
InitProgram ==
    /\ nodes = InitNodes
    /\ volumes = InitVolumes
    /\ pcMain = "loop"
    /\ counter = <<>>
    /\ sink = [n |-> 0, last |-> NoEvent]
    /\ generated = <<>>
    /\ failures = 0
    /\ pcK8s = "alive"
    /\ k8sGauges = NoGauges
    /\ pcSys = "alive"
    /\ sysGauges = NoGauges
    /\ selRet = NoCall
    /\ runA = NoRun
    /\ runB = NoRun

Init == events = EVENTS /\ seed = 0 /\ InitProgram

MainLoop == MainIteration(FocusDraws, MaxEvents)

Next == MainLoop \/ K8sUpdate \/ K8sFail \/ SysUpdate \/ SysFail

\* the program: main and the two polling threads, interleaved
Spec == Init /\ [][Next]_vars

(***************************************************************************)
(* The generator alone: main over every definition, node and volume, for   *)
(* EVENTS and for catalogs that hold names generate_event does not handle. *)
(***************************************************************************)
\* EVENTS with every weight 0: no cell matches, as when rounding leaves the
\* draw unmatched, and weighted_choice takes the return after its loop
UnmatchedEvents == [i \in 1..Len(EVENTS) |-> <<EVENTS[i][1], EVENTS[i][2], 0>>]

GenCatalogs ==
    { EVENTS, UnmatchedEvents,
      << <<"VOLUME_RESIZED", "WARNING", 1>> >>,
      << <<"NODE_JOINED", "INFO", 1>>, <<"QUOTA_EXCEEDED", "ERROR", 2>>,
         <<"VOLUME_EXPANDED", "INFO", 1>> >> }

InitGen == events \in GenCatalogs /\ seed = 0 /\ InitProgram

GenLoop == MainIteration(WideDraws, MaxCalls)

SpecGen == InitGen /\ [][GenLoop]_vars

(***************************************************************************)
(* weighted_choice alone, called on catalogs of up to MaxCatalogLen        *)
(* definitions with weights 0..MaxWeight, the empty catalog included.      *)
(***************************************************************************)
SelNames == <<"DATA_READ", "DATA_WRITE", "CACHE_MISS", "IO_TIMEOUT", "NODE_LEFT", "NODE_REBOOT">>

SelLevels == <<"INFO", "WARNING", "INFO", "ERROR", "WARNING", "WARNING">>

Catalogs ==
    UNION { { [i \in 1..n |-> <<SelNames[i], SelLevels[i], w[i]>>] : w \in [1..n -> 0..MaxWeight] } :
            n \in 0..MaxCatalogLen }

InitSel == events \in Catalogs /\ seed = 0 /\ InitProgram

\* a call weighted_choice(events) whose draw falls in cell r
Select ==
    /\ \E r \in RandomR(events) :
         selRet' = [called |-> TRUE, r |-> r, ret |-> weighted_choice(events, r)]
    /\ UNCHANGED <<events, nodes, volumes, pcMain, counter, sink, generated, failures,
                   pcK8s, k8sGauges, pcSys, sysGauges, seed, runA, runB>>

SpecSel == InitSel /\ [][Select]_vars

(***************************************************************************)
(* Two runs of generate_event, each in a process of its own that starts    *)
(* from the same catalogs and seeds the random module with the same seed.  *)
(* The random module is a deterministic generator: its i-th output is a    *)
(* function of the seed (here a full-period congruential generator with    *)
(* 16 values; random.random() is output / 16).  Faker draws from a         *)
(* generator of its own and uuid.uuid4 from the operating system, so the   *)
(* seed does not fix d.user, d.ip and d.uuid.                              *)
(***************************************************************************)
RECURSIVE Random16(_, _)
Random16(s, i) == IF i = 0 THEN s % 16 ELSE (5 * Random16(s, i - 1) + 3) % 16

SitePos(site) == CHOOSE i \in 1..Len(Sites) : Sites[i] = site

\* a faulty variant of SeededDraws: the generator is seeded again from the operating
\* system's entropy (random.seed() without an argument) before the call
SeededDrawsReseeded(s, ent) ==
    LET e == CHOOSE i \in 1..Len(Uuids) : Uuids[i] = ent.uuid
    IN  [ r |-> (Random16(e, 1) * total_weight(events)) \div 16,
          node |-> 1 + (Random16(e, 2) * Len(nodes)) \div 16,
          volume |-> 1 + (Random16(e, 3) * Len(volumes)) \div 16,
          q |-> [site \in SiteSet |-> (Random16(e, 3 + SitePos(site)) * (QSteps + 1)) \div 16],
          user |-> ent.user, ip |-> ent.ip, uuid |-> ent.uuid ]

\* the draws of one call after random.seed(s); ent is what Faker and uuid4 draw
SeededDraws(s, ent) ==
    [ r |-> (Random16(s, 1) * total_weight(events)) \div 16,
      node |-> 1 + (Random16(s, 2) * Len(nodes)) \div 16,
      volume |-> 1 + (Random16(s, 3) * Len(volumes)) \div 16,
      q |-> [site \in SiteSet |-> (Random16(s, 3 + SitePos(site)) * (QSteps + 1)) \div 16],
      user |-> ent.user, ip |-> ent.ip, uuid |-> ent.uuid ]

Entropy == { [user |-> Users[u], ip |-> Ips[i], uuid |-> Uuids[c]] :
             u \in 1..Len(Users), i \in 1..Len(Ips), c \in 1..Len(Uuids) }

SeededRun(s, ent) ==
    LET g == generate_event(events, nodes, volumes, SeededDraws(s, ent))
    IN  [done |-> TRUE, level |-> g.level, message |-> g.message, extra |-> g.extra]

InitSeed == events = EVENTS /\ seed \in 0..MaxSeed /\ InitProgram

RunFirst ==
    /\ ~runA.done
    /\ \E ent \in Entropy : runA' = SeededRun(seed, ent)
    /\ UNCHANGED <<events, nodes, volumes, pcMain, counter, sink, generated, failures,
                   pcK8s, k8sGauges, pcSys, sysGauges, selRet, seed, runB>>

RunSecond ==
    /\ ~runB.done
    /\ \E ent \in Entropy : runB' = SeededRun(seed, ent)
    /\ UNCHANGED <<events, nodes, volumes, pcMain, counter, sink, generated, failures,
                   pcK8s, k8sGauges, pcSys, sysGauges, selRet, seed, runA>>

NextSeed == RunFirst \/ RunSecond

SpecSeed == InitSeed /\ [][NextSeed]_vars

(***************************************************************************)
(* Properties                                                              *)
(***************************************************************************)
\* the step is a call of generate_event whose weighted_choice chose n
ChosenInStep(n) == Count(generated', n) = Count(generated, n) + 1

\* the step is an iteration of main that forwarded its event to the logger
Forwarded == sink'.n = sink.n + 1

\* the level the catalog evs gives the name n
LevelIn(evs, n) == evs[CHOOSE i \in 1..Len(evs) : evs[i][1] = n][2]

\* the catalog has the names and levels of EVENTS, in order
SameMapping(evs) ==
    /\ Len(evs) = Len(EVENTS)
    /\ \A i \in 1..Len(evs) : evs[i][1] = EVENTS[i][1] /\ evs[i][2] = EVENTS[i][2]

\* the names the dispatch of generate_event handles
HandledNames == {EVENTS[i][1] : i \in 1..Len(EVENTS)}

VolumeIndex(vols, id) == CHOOSE v \in 1..Len(vols) : vols[v].id = id

\* C1: in every call of generate_event over the names and levels of EVENTS,
\* the returned fields["event"] is the name weighted_choice chose and the
\* returned level is the level EVENTS gives that name; this includes the calls
\* in which weighted_choice returns after its loop.
C1_EventNameAndSeverity ==
    [][ \A n \in DOMAIN generated' :
          (SameMapping(events) /\ ChosenInStep(n) /\ Forwarded)
          => /\ sink'.last.extra.event = n
             /\ sink'.last.level = LevelIn(EVENTS, n) ]_vars

C1_Witness ==
    /\ events = EVENTS
    /\ sink.n = 1
    /\ sink.last.extra.event = "DISK_FAILURE"
    /\ sink.last.level = "CRITICAL"
    /\ Count(generated, "DISK_FAILURE") = 1

\* C2: a call that chooses VOLUME_EXPANDED adds a delta of 100..500 to the
\* capacity_gb of one volume; when its event reaches the logger, that volume is
\* the picked one, old_size_gb is its capacity before the call and new_size_gb
\* the capacity the catalog holds after it; and no step decreases the
\* capacity_gb of any volume.
C2_ExpansionGrowsCapacity ==
    [][ /\ \A v \in 1..Len(volumes) : volumes'[v].capacity_gb >= volumes[v].capacity_gb
        /\ ChosenInStep("VOLUME_EXPANDED")
           => /\ \E v \in 1..Len(volumes) :
                   (volumes'[v].capacity_gb - volumes[v].capacity_gb) \in 100..500
              /\ Forwarded
                 => LET f == sink'.last.extra
                        v == VolumeIndex(volumes, f.volume_id)
                    IN  /\ f.old_size_gb = volumes[v].capacity_gb
                        /\ f.new_size_gb = volumes'[v].capacity_gb
                        /\ (f.new_size_gb - f.old_size_gb) \in 100..500 ]_vars

\* the first volume was expanded twice, and the second expansion was logged
C2_Witness ==
    /\ sink.n = 2
    /\ sink.last.extra.event = "VOLUME_EXPANDED"
    /\ sink.last.extra.volume_id = "vol-100"
    /\ sink.last.extra.old_size_gb > InitVolumes[1].capacity_gb
    /\ volumes[1].capacity_gb = sink.last.extra.new_size_gb

\* C3: a call whose kind is not VOLUME_EXPANDED leaves every volume's
\* capacity_gb as it was; a VOLUME_EXPANDED call changes the capacity_gb of the
\* picked volume only; no call changes a volume's id or cluster, the number of
\* volumes, or the nodes.
C3_Frame ==
    [][ \A n \in DOMAIN generated' :
          ChosenInStep(n)
          => /\ nodes' = nodes
             /\ Len(volumes') = Len(volumes)
             /\ \A v \in 1..Len(volumes) :
                   /\ volumes'[v].id = volumes[v].id
                   /\ volumes'[v].cluster = volumes[v].cluster
             /\ n # "VOLUME_EXPANDED" => volumes' = volumes
             /\ n = "VOLUME_EXPANDED"
                => /\ \E v \in 1..Len(volumes) :
                        \A w \in 1..Len(volumes) : w # v => volumes'[w] = volumes[w]
                   /\ Forwarded
                      => \A w \in 1..Len(volumes) :
                           volumes[w].id # sink'.last.extra.volume_id => volumes'[w] = volumes[w] ]_vars

\* vol-200 was picked and expanded, and every other volume is as it started
C3_Witness ==
    /\ sink.n = 1
    /\ sink.last.extra.event = "VOLUME_EXPANDED"
    /\ sink.last.extra.volume_id = "vol-200"
    /\ volumes[3].capacity_gb > InitVolumes[3].capacity_gb
    /\ \A w \in 1..Len(volumes) : w # 3 => volumes[w] = InitVolumes[w]

\* the catalog is not empty and every weight is positive
AllPositive(evs) == Len(evs) > 0 /\ \A i \in 1..Len(evs) : evs[i][3] > 0

\* C4: on a non-empty catalog whose weights are all positive, for every draw r
\* of [0, total_weight), weighted_choice returns the name and level of the first
\* definition, in catalog order, whose cumulative weight exceeds r, and it
\* returns from inside its loop, never by the return after it.
C4_FirstExceeding ==
    (selRet.called /\ AllPositive(events))
    => /\ \E i \in 1..Len(events) : SumWeights(events, i) > selRet.r
       /\ LET k == CHOOSE i \in 1..Len(events) :
                     /\ SumWeights(events, i) > selRet.r
                     /\ \A j \in 1..(i - 1) : SumWeights(events, j) <= selRet.r
          IN  /\ selRet.ret.name = events[k][1]
              /\ selRet.ret.lvl = events[k][2]
              /\ selRet.ret.via = "loop"

\* the last draw of a catalog of three positive weights selects its third
\* definition
C4_Witness ==
    /\ selRet.called
    /\ Len(events) = 3
    /\ AllPositive(events)
    /\ selRet.r = total_weight(events) - 1
    /\ selRet.r = SumWeights(events, 2)
    /\ selRet.ret.name = events[3][1]

\* the catalog is empty or all its weights are zero
Degenerate(evs) == \A i \in 1..Len(evs) : evs[i][3] = 0

CommonKeys ==
    { "event", "cluster", "node_id", "node_ip", "node_region", "volume_id", "volume_cluster",
      "volume_capacity_gb", "process_id", "device_type", "os_version", "user_agent", "caller_ip",
      "correlation_id", "cpu_usage_percent", "memory_free_mb", "priority", "tags", "phase",
      "org_id", "department" }

\* C6: a call whose chosen name is not one the dispatch handles does not raise
\* (main stops only when an external call raised); it returns the level the
\* catalog gives the name, the message "UNKNOWN EVENT <name>" and fields that
\* hold unknown_event = true and the common fields, and it leaves the volumes
\* as they were.
C6_UnknownEvent ==
    /\ [](pcMain = "stopped" => failures > 0)
    /\ [][ \A n \in DOMAIN generated' :
             (ChosenInStep(n) /\ n \notin HandledNames)
             => /\ volumes' = volumes
                /\ Forwarded
                   => /\ sink'.last.level = LevelIn(events, n)
                      /\ sink'.last.message = <<"UNKNOWN EVENT ", n>>
                      /\ sink'.last.extra.event = n
                      /\ sink'.last.extra.unknown_event = TRUE
                      /\ CommonKeys \subseteq DOMAIN sink'.last.extra ]_vars

C6_Witness ==
    /\ sink.n = 1
    /\ pcMain = "loop"
    /\ sink.last.extra.event = "QUOTA_EXCEEDED"
    /\ sink.last.level = "ERROR"
    /\ sink.last.extra.unknown_event = TRUE

\* C7, as claimed: after an external call of main (the counter or the logger)
\* raised, the loop of main still runs.
C7_Original == failures > 0 => pcMain = "loop"

\* the fields whose value is drawn by Faker or by uuid.uuid4
UnseededKeys ==
    { "correlation_id", "caller_ip", "created_by", "expanded_by", "deleted_by", "restored_by",
      "backup_by", "backup_user", "replication_initiator", "enabled_by", "disabled_by" }

\* the message of a run, without the user name that the DATA_READ and
\* DATA_WRITE messages end with
MessageSansUser(run) ==
    IF run.extra.event \in {"DATA_READ", "DATA_WRITE"}
    THEN SubSeq(run.message, 1, Len(run.message) - 1)
    ELSE run.message

PollingStep ==
    \/ pcK8s' # pcK8s
    \/ pcSys' # pcSys
    \/ k8sGauges' # k8sGauges
    \/ sysGauges' # sysGauges

\* C10: under every interleaving of main and the two polling threads, a
\* volume changes only in a step of main that generates an event, the nodes
\* never change, a step of a polling thread changes nothing of main or of the
\* catalogs, no volume's capacity_gb ever decreases, and main can run its next
\* iteration whatever became of the polling threads.
C10_PollingLoopsIndependent ==
    /\ [][ /\ volumes' # volumes => Total(generated') = Total(generated) + 1
           /\ nodes' = nodes
           /\ \A v \in 1..Len(volumes) : volumes'[v].capacity_gb >= volumes[v].capacity_gb
           /\ PollingStep
              => UNCHANGED <<events, nodes, volumes, pcMain, counter, sink, generated, failures>> ]_vars
    /\ []((pcMain = "loop" /\ Total(generated) < MaxEvents) => ENABLED MainLoop)

\* both polling threads ended, the first before it set a gauge, and main has
\* completed two iterations and expanded the first volume
C10_Witness ==
    /\ pcK8s = "dead"
    /\ k8sGauges = NoGauges
    /\ pcSys = "dead"
    /\ sysGauges # NoGauges
    /\ pcMain = "loop"
    /\ sink.n = 2
    /\ volumes[1].capacity_gb > InitVolumes[1].capacity_gb

\* C11: the volume_capacity_gb of every event that reaches the logger is the
\* capacity_gb the catalog held for the picked volume when the call started,
\* so it includes every earlier expansion of that volume; the usage_gb of an
\* ALERT_CAPACITY event is that capacity plus 100..300; and for a
\* VOLUME_EXPANDED event volume_capacity_gb is old_size_gb, the capacity before
\* the expansion, and not the capacity the call leaves in the catalog.
C11_CapacityAtCallStart ==
    [][ Forwarded
        => LET f == sink'.last.extra
               v == VolumeIndex(volumes, f.volume_id)
           IN  /\ f.volume_capacity_gb = volumes[v].capacity_gb
               /\ f.event = "ALERT_CAPACITY"
                  => (f.usage_gb - volumes[v].capacity_gb) \in 100..300
               /\ f.event = "VOLUME_EXPANDED"
                  => /\ f.volume_capacity_gb = f.old_size_gb
                     /\ f.volume_capacity_gb # volumes'[v].capacity_gb
                     /\ f.new_size_gb = volumes'[v].capacity_gb ]_vars

\* vol-200 was expanded by the first call, and the second call logged an
\* ALERT_CAPACITY for it that carries the expanded capacity
C11_Witness ==
    /\ sink.n = 2
    /\ Count(generated, "VOLUME_EXPANDED") = 1
    /\ sink.last.extra.event = "ALERT_CAPACITY"
    /\ sink.last.extra.volume_id = "vol-200"
    /\ volumes[3].capacity_gb > InitVolumes[3].capacity_gb
    /\ sink.last.extra.volume_capacity_gb = volumes[3].capacity_gb
    /\ (sink.last.extra.usage_gb - volumes[3].capacity_gb) \in 100..300

====
